---- MODULE Spec2Model ----
(***************************************************************************)
(* A model of blog/build.py (TenderAtlas blog build script).               *)
(*                                                                         *)
(* Text is modelled as a sequence of one-character strings, so that the    *)
(* string operations of the script (strip, splitlines, split, replace,     *)
(* startswith, the regular expressions) are computed and not assumed.      *)
(* A few multi-character strings occur as single elements of emitted HTML  *)
(* ("<strong>", "<ul>", ...): no pattern of the script can match inside    *)
(* them.                                                                   *)
(***************************************************************************)
EXTENDS Integers, Sequences, FiniteSets, TLC

(***************************************************************************)
(* Python str helpers                                                      *)
(***************************************************************************)

\* The characters used by the model, in ascending code point order
\* (str comparison in Python compares code points).
CodePoints ==
    << "\t", "\n", " ", "#", "(", ")", "*", "-", ".", "0", "1",
       "2", "3", "4", "5", "6", "7", "8", "9", ":", ">", "A", "B",
       "C", "D", "E", "F", "G", "H", "I", "J", "K", "L", "M", "N",
       "O", "P", "Q", "R", "S", "T", "U", "V", "W", "X", "Y", "Z",
       "[", "]", "_", "a", "b", "c", "d", "e", "f", "g", "h", "i",
       "j", "k", "l", "m", "n", "o", "p", "q", "r", "s", "t", "u",
       "v", "w", "x", "y", "z", "|" >>

Ord(c) == CHOOSE k \in 1..Len(CodePoints) : CodePoints[k] = c

\* a < b for Python strings
RECURSIVE StrLess(_, _)
StrLess(a, b) ==
    IF b = <<>> THEN FALSE
    ELSE IF a = <<>> THEN TRUE
    ELSE IF a[1] = b[1] THEN StrLess(Tail(a), Tail(b))
    ELSE Ord(a[1]) < Ord(b[1])

IsSpace(c) == c \in {" ", "\t", "\n"}

Digits == <<"0", "1", "2", "3", "4", "5", "6", "7", "8", "9">>

IsDigit(c) == \E k \in 1..10 : Digits[k] = c

DigitVal(c) == (CHOOSE k \in 1..10 : Digits[k] = c) - 1

LowerCase ==
    << "a", "b", "c", "d", "e", "f", "g", "h", "i", "j", "k", "l",
       "m", "n", "o", "p", "q", "r", "s", "t", "u", "v", "w", "x",
       "y", "z" >>

UpperCase ==
    << "A", "B", "C", "D", "E", "F", "G", "H", "I", "J", "K", "L",
       "M", "N", "O", "P", "Q", "R", "S", "T", "U", "V", "W", "X",
       "Y", "Z" >>

\* str.upper() and str.lower(), character by character
UpperChar(c) ==
    IF \E k \in 1..Len(LowerCase) : LowerCase[k] = c
    THEN UpperCase[CHOOSE k \in 1..Len(LowerCase) : LowerCase[k] = c]
    ELSE c

LowerChar(c) ==
    IF \E k \in 1..Len(UpperCase) : UpperCase[k] = c
    THEN LowerCase[CHOOSE k \in 1..Len(UpperCase) : UpperCase[k] = c]
    ELSE c

Upper(s) == [k \in 1..Len(s) |-> UpperChar(s[k])]

\* A faulty lowering, to check C17 against: the case is left as it is
SameCase(s) == s

Lower(s) == [k \in 1..Len(s) |-> LowerChar(s[k])]

\* s[from:] with a 1-based index
Drop(s, n) == SubSeq(s, n + 1, Len(s))

Take(s, n) == SubSeq(s, 1, n)

\* str.strip()
RECURSIVE LStrip(_)
LStrip(s) == IF s # <<>> /\ IsSpace(s[1]) THEN LStrip(Tail(s)) ELSE s

RECURSIVE RStrip(_)
RStrip(s) ==
    IF s # <<>> /\ IsSpace(s[Len(s)]) THEN RStrip(Take(s, Len(s) - 1)) ELSE s

Strip(s) == RStrip(LStrip(s))

\* str.startswith(p)
StartsWith(s, p) == Len(s) >= Len(p) /\ Take(s, Len(p)) = p

\* str.find(sub), 1-based, 0 when absent
Find(s, sub) ==
    LET hits == { k \in 1..(Len(s) - Len(sub) + 1) :
                    SubSeq(s, k, k + Len(sub) - 1) = sub }
    IN  IF hits = {} THEN 0 ELSE CHOOSE k \in hits : \A j \in hits : k <= j

\* sub in s
Contains(s, sub) == Find(s, sub) # 0

\* s.split(sub, 1) for a string that contains sub
SplitOnce(s, sub) ==
    LET k == Find(s, sub)
    IN  << Take(s, k - 1), Drop(s, k + Len(sub) - 1) >>

\* s.replace(old, ""): every non-overlapping occurrence, left to right
RECURSIVE RemoveAll(_, _)
RemoveAll(s, old) ==
    LET k == Find(s, old)
    IN  IF k = 0 THEN s
        ELSE Take(s, k - 1) \o RemoveAll(Drop(s, k + Len(old) - 1), old)

\* str.splitlines(): no empty last line after a final line break
RECURSIVE SplitLines(_)
SplitLines(s) ==
    IF s = <<>> THEN <<>>
    ELSE LET k == Find(s, <<"\n">>)
         IN  IF k = 0 THEN <<s>>
             ELSE <<Take(s, k - 1)>> \o SplitLines(Drop(s, k))

\* " ".join(parts)
RECURSIVE JoinSpace(_)
JoinSpace(parts) ==
    IF parts = <<>> THEN <<>>
    ELSE IF Len(parts) = 1 THEN parts[1]
    ELSE parts[1] \o <<" ">> \o JoinSpace(Tail(parts))

\* dict.get(key, default) on a record whose keys are field names
Get(d, key, default) == IF key \in DOMAIN d THEN d[key] ELSE default

(***************************************************************************)
(* format_date_hr                                                          *)
(***************************************************************************)

IsLeap(y) == (y % 4 = 0 /\ y % 100 # 0) \/ y % 400 = 0

DaysInMonth(y, m) ==
    IF m = 2 THEN (IF IsLeap(y) THEN 29 ELSE 28)
    ELSE IF m \in {4, 6, 9, 11} THEN 30 ELSE 31

\* The value of a string of decimal digits
RECURSIVE Number(_)
Number(s) ==
    IF s = <<>> THEN 0 ELSE 10 * Number(Take(s, Len(s) - 1)) + DigitVal(s[Len(s)])

AllDigits(s) == \A k \in 1..Len(s) : IsDigit(s[k])

\* datetime.strptime(s, "%Y-%m-%d"): four digits of year, a month of one or
\* two digits in 1..12, a day of one or two digits (or a blank and a digit)
\* that exists in that month, and nothing after it.  ok = FALSE stands for
\* the ValueError strptime raises.
strptime(s) ==
    LET bad  == [ok |-> FALSE, y |-> 0, m |-> 0, d |-> 0]
        rest == Drop(s, 5)
        k    == Find(rest, <<"-">>)
        ms   == Take(rest, k - 1)
        ds0  == Drop(rest, k)
        ds   == IF Len(ds0) = 2 /\ ds0[1] = " " THEN Tail(ds0) ELSE ds0
        y    == Number(Take(s, 4))
        m    == Number(ms)
        d    == Number(ds)
    IN  IF Len(s) < 5 \/ ~AllDigits(Take(s, 4)) \/ s[5] # "-" THEN bad
        ELSE IF k = 0 \/ Len(ms) \notin {1, 2} \/ ~AllDigits(ms) THEN bad
        ELSE IF Len(ds) \notin {1, 2} \/ ~AllDigits(ds) THEN bad
        ELSE IF Len(ds0) = 2 /\ ds0[1] = " " /\ ds0[2] = "0" THEN bad
        ELSE IF y < 1 \/ m < 1 \/ m > 12 \/ d < 1 \/ d > DaysInMonth(y, m) THEN bad
        ELSE [ok |-> TRUE, y |-> y, m |-> m, d |-> d]

\* format_date_hr(date_str): "<day>. <MONTHS_HR[month - 1]> <year>." as the
\* triple of day, month index and year; ok = FALSE when strptime raises.
format_date_hr(date_str) == strptime(Strip(date_str))

(***************************************************************************)
(* parse_metadata                                                          *)
(***************************************************************************)

\* A faulty assignment, to check C16 against: a key keeps its first value
DictPutFirst(d, key, val) ==
    [x \in DOMAIN d \cup {key} |-> IF x \in DOMAIN d THEN d[x] ELSE val]

\* meta[key] = val on a dict
DictPut(d, key, val) ==
    [x \in DOMAIN d \cup {key} |-> IF x = key THEN val ELSE d[x]]

EmptyDict == [x \in {} |-> <<>>]

RECURSIVE MetaOfLines(_, _)
MetaOfLines(lines, meta) ==
    IF lines = <<>> THEN meta
    ELSE LET line == Strip(lines[1])
             kv   == SplitOnce(line, <<":">>)
         IN  MetaOfLines(Tail(lines),
                 IF Contains(line, <<":">>)
                 THEN DictPut(meta, Upper(Strip(kv[1])), Strip(kv[2]))
                 ELSE meta)

parse_metadata(header_text) == MetaOfLines(SplitLines(Strip(header_text)), EmptyDict)

(***************************************************************************)
(* inline_format                                                           *)
(***************************************************************************)

\* The least element of a non-empty set of numbers
Min(S) == CHOOSE k \in S : \A j \in S : k <= j

Max(S) == CHOOSE k \in S : \A j \in S : k >= j

\* s has the string d at index k
At(s, k, d) == k >= 1 /\ k + Len(d) - 1 <= Len(s) /\ SubSeq(s, k, k + Len(d) - 1) = d

NoNewline(s) == \A k \in 1..Len(s) : s[k] # "\n"

\* The closing places of the non-greedy d(.+?)d opened at index k
Closings(s, k, d) ==
    { j \in (k + Len(d) + 1)..Len(s) :
        At(s, j, d) /\ NoNewline(SubSeq(s, k + Len(d), j - 1)) }

\* re.sub of d(.+?)d by <open>\1<close>: leftmost match, shortest span, then
\* on from the end of the match
RECURSIVE SubPair(_, _, _, _)
SubPair(s, d, open, close) ==
    LET starts == { k \in 1..Len(s) : At(s, k, d) /\ Closings(s, k, d) # {} }
        k == Min(starts)
        j == Min(Closings(s, k, d))
    IN  IF starts = {} THEN s
        ELSE Take(s, k - 1) \o <<open>> \o SubSeq(s, k + Len(d), j - 1) \o <<close>>
             \o SubPair(Drop(s, j + Len(d) - 1), d, open, close)

\* The number of characters from index k on that satisfy keep, up to the
\* first that does not
RECURSIVE RunLen(_, _, _)
RunLen(s, k, stop) ==
    IF k > Len(s) \/ s[k] \in stop THEN 0 ELSE 1 + RunLen(s, k + 1, stop)

\* A match of \[([^\]]+)\]\(([^)]+)\) at index k
LinkAt(s, k) ==
    LET n == RunLen(s, k + 1, {"]"})
        u == k + n + 3
        m == RunLen(s, u, {")"})
    IN  /\ At(s, k, <<"[">>)
        /\ n >= 1
        /\ At(s, k + n + 1, <<"]", "(">>)
        /\ m >= 1
        /\ At(s, u + m, <<")">>)

\* re.sub of the link pattern by <a href="\2">\1</a>
RECURSIVE SubLink(_)
SubLink(s) ==
    LET starts == { k \in 1..Len(s) : LinkAt(s, k) }
        k == Min(starts)
        n == RunLen(s, k + 1, {"]"})
        u == k + n + 3
        m == RunLen(s, u, {")"})
    IN  IF starts = {} THEN s
        ELSE Take(s, k - 1) \o <<"<a href=\"">> \o SubSeq(s, u, u + m - 1) \o <<"\">">>
             \o SubSeq(s, k + 1, k + n) \o <<"</a>">> \o SubLink(Drop(s, u + m))

bold(text) == SubPair(text, <<"*", "*">>, "<strong>", "</strong>")

italic(text) == SubPair(text, <<"*">>, "<em>", "</em>")

inline_format(text) == SubLink(italic(bold(text)))

(***************************************************************************)
(* The image directive                                                     *)
(***************************************************************************)

SLIKA == <<"[", "S", "L", "I", "K", "A", ":">>

Blanks == {" ", "\t"}

\* The number of blanks from index k on
WsRun(s, k) == RunLen(s, k, { s[j] : j \in 1..Len(s) } \ Blanks)

\* \s*\] at index k
ClosesAt(s, k) == At(s, k + WsRun(s, k), <<"]">>)

\* The caption starts tried for \|\s*(.+?) after a bar at index q, and the
\* caption ends that let \s*\] follow
CaptionEnds(s, r) == { t \in r..Len(s) : ClosesAt(s, t + 1) }

CaptionStarts(s, q) ==
    { r \in (q + 1)..(q + 1 + WsRun(s, q + 1)) : CaptionEnds(s, r) # {} }

\* \s*(?:\|\s*(.+?))?\s*\] at index p: the greedy \s* reaches the first
\* non-blank, which must be the bar of a caption or the closing bracket
RestAt(s, p) ==
    LET q == p + WsRun(s, p)
    IN  \/ At(s, q, <<"]">>)
        \/ At(s, q, <<"|">>) /\ CaptionStarts(s, q) # {}

\* The ends of group 1 started at index a
FileEnds(s, a) == { e \in a..Len(s) : RestAt(s, e + 1) }

\* The starts of group 1 the greedy \s* after the colon leaves
FileStarts(s) ==
    { a \in (Len(SLIKA) + 1)..(Len(SLIKA) + 1 + WsRun(s, Len(SLIKA) + 1)) :
        FileEnds(s, a) # {} }

\* re.match(r'\[SLIKA:\s*(.+?)\s*(?:\|\s*(.+?))?\s*\]', stripped): whether it
\* matches, group 1 and (group 2 or "")
img_match(stripped) ==
    LET a == Max(FileStarts(stripped))
        e == Min(FileEnds(stripped, a))
        q == e + 1 + WsRun(stripped, e + 1)
        r == Max(CaptionStarts(stripped, q))
        t == Min(CaptionEnds(stripped, r))
    IN  IF ~StartsWith(stripped, SLIKA) \/ FileStarts(stripped) = {}
        THEN [ok |-> FALSE, file |-> <<>>, caption |-> <<>>]
        ELSE [ok |-> TRUE, file |-> SubSeq(stripped, a, e),
              caption |-> IF At(stripped, q, <<"|">>) /\ CaptionStarts(stripped, q) # {}
                          THEN SubSeq(stripped, r, t) ELSE <<>>]

(***************************************************************************)
(* The inputs of a run: the post folders and the catalog file              *)
(***************************************************************************)

NASLOV == <<"N", "A", "S", "L", "O", "V">>

DATUM == <<"D", "A", "T", "U", "M">>

KATEGORIJA == <<"K", "A", "T", "E", "G", "O", "R", "I", "J", "A">>

OPIS == <<"O", "P", "I", "S">>

HERO == <<"H", "E", "R", "O">>

Separator == <<"-", "-", "-">>

DotHtml == <<".", "h", "t", "m", "l">>

\* "KEY: value"
KV(key, val) == key \o <<":", " ">> \o val

\* The text of a file with the given lines
RECURSIVE Text(_)
Text(ls) == IF ls = <<>> THEN <<>> ELSE ls[1] \o <<"\n">> \o Text(Tail(ls))

Date20Feb == <<"2", "0", "2", "6", "-", "0", "2", "-", "2", "0">>

Date1Jan2025 == <<"2", "0", "2", "5", "-", "0", "1", "-", "0", "1">>

\* The texts of sadrzaj.txt a folder may hold:
\*   full       a post that uses every block rule of the body markup
\*   hero       a post with a hero image and the date of full
\*   no_date    a post without DATUM whose body ends inside a list
\*   no_sep     no separator at all
\*   inline_sep no line "---", but "---" inside a longer line
\*   no_title   a header without NASLOV
\*   empty_title a header whose NASLOV has no value
\*   bad_date   a DATUM that is not YYYY-MM-DD
\*   bad_image  an image directive without its closing bracket
Raw ==
    [ full |->
        Text(<< KV(NASLOV, <<"T">>), KV(DATUM, Date20Feb), Separator,
                <<"#", "#", " ", "h">>,
                <<"-", " ", "x">>,
                <<>>,
                <<">", " ", "q">>,
                <<"#", "#", "#", " ", "s">>,
                SLIKA \o <<" ", "i", " ", "|", " ", "c", "]">>,
                <<"p">> >>),
      hero |->
        Text(<< KV(NASLOV, <<"U">>), KV(DATUM, Date20Feb),
                KV(HERO, <<"h", ".", "p", "n", "g">>), Separator, <<"w">> >>),
      no_date |-> Text(<< KV(NASLOV, <<"V">>), Separator, <<"-", " ", "w">> >>),
      no_sep |-> Text(<< KV(NASLOV, <<"T">>), <<"w">> >>),
      inline_sep |-> Text(<< KV(NASLOV, <<"T">>), <<"x", "-", "-", "-", "y">> >>),
      no_title |-> Text(<< KV(DATUM, Date20Feb), Separator, <<"w">> >>),
      empty_title |-> Text(<< NASLOV \o <<":">>, Separator, <<"w">> >>),
      bad_date |->
        Text(<< KV(NASLOV, <<"T">>),
                KV(DATUM, <<"2", "0", ".", "0", "2", ".", "2", "0", "2", "6">>),
                Separator, <<"w">> >>),
      bad_image |-> Text(<< KV(NASLOV, <<"T">>), Separator, SLIKA \o <<" ", "x">> >>) ]

Raws == { Raw[f] : f \in DOMAIN Raw }

NameA == <<"a">>

NameB == <<"b">>

\* A folder whose name contains ".html"
NameC == <<"c">> \o DotHtml

NameImg == <<"i", "m", "g">>

\* The directories of BLOG_DIR: three post folders and three that the scan
\* excludes by name ("_d", ".g", "img")
PostFolders == {NameA, NameB, NameC}

Directories == PostFolders \cup { <<"_", "d">>, <<".", "g">>, NameImg }

\* The files lying in each folder
FolderFiles(name) ==
    { <<"s", "a", "d", "r", "z", "a", "j", ".", "t", "x", "t">> }
    \cup (IF name = NameA
          THEN { <<"z", ".", "P", "N", "G">>, <<"n", ".", "t", "x", "t">> }
          ELSE IF name = NameB
          THEN { <<"b", ".", "j", "p", "g">>, <<"a", ".", "s", "v", "g">> }
          ELSE {})

NoTxt == [has_txt |-> FALSE, raw |-> <<>>]

WithTxt(raw) == [has_txt |-> TRUE, raw |-> raw]

\* The folder contents a run may find
FolderStates ==
    { f \in [Directories -> {NoTxt} \cup { WithTxt(r) : r \in Raws }] :
        /\ f[NameC] \in {NoTxt, WithTxt(Raw.hero), WithTxt(Raw.no_title),
                          WithTxt(Raw.no_date)}
        /\ \A n \in Directories \ PostFolders : f[n] = WithTxt(Raw.hero) }

\* A JSON value that is not an object (a number, a string, a key of a dict)
NonObject == [nonobject |-> TRUE]

IsObject(ep) == "nonobject" \notin DOMAIN ep

FileOf(slug) == slug \o DotHtml

\* Records of a persisted catalog: manual entries m, l and k (k without a
\* date), and stale entries a and c of the post folders a and c.html
Entry ==
    [ m |-> [file |-> FileOf(<<"m">>), title |-> <<"M">>, date |-> Date20Feb],
      l |-> [file |-> FileOf(<<"l">>), title |-> <<"L">>, date |-> Date20Feb],
      k |-> [file |-> FileOf(<<"k">>), title |-> <<"K">>],
      a |-> [file |-> FileOf(NameA), title |-> <<"o", "l", "d">>, date |-> Date1Jan2025],
      c |-> [file |-> FileOf(NameC), title |-> <<"o", "l", "d">>, date |-> Date1Jan2025] ]

\* The catalog file: "absent", "invalid" (not JSON), or a JSON value: a
\* "scalar" (number, null), a "dict" (iterating it yields its keys, which are
\* not objects) or a "list"
Json(kind, elements) == [kind |-> kind, items |-> elements]

JsonList(elements) == Json("list", elements)

CatalogFiles ==
    { Json("absent", <<>>), Json("invalid", <<>>), Json("scalar", <<>>),
      Json("dict", <<>>), Json("dict", <<NonObject>>),
      JsonList(<<>>), JsonList(<<NonObject>>), JsonList(<<Entry.a>>),
      JsonList(<<Entry.c, Entry.k>>), JsonList(<<Entry.m, Entry.l>>),
      JsonList(<<Entry.l, Entry.m, Entry.a>>), JsonList(<<Entry.k, Entry.m>>) }

(***************************************************************************)
(* build_blog: state                                                       *)
(***************************************************************************)

\* The number of runs of the script
MaxRuns == 2

\* The fragments a body loop that does not advance may pile up
MaxParts == 2

\* The lines of a body given to txt_to_html_content on its own
MaxLines == 3

\* The lines of a header given to parse_metadata on its own
MaxHeader == 3

\* The spans of a text given to inline_format on its own
MaxSpans == 4

VARIABLES
    folders,          \* BLOG_DIR's directories: name -> sadrzaj.txt
    posts_json,       \* the catalog file POSTS_JSON
    html_files,       \* the generated <slug>.html files: name -> html
    run,              \* runs started
    pc,               \* the place of the run in build_blog
    error,            \* the exception that ended the run, "" if none
    existing_posts,   \* build_blog's locals ...
    posts,
    generated_slugs,
    items,            \* sorted(BLOG_DIR.iterdir())
    idx,              \* the place of the folder loop in items
    meta,             \* the current folder's metadata
    lines,            \* txt_to_html_content's locals ...
    html_parts,
    in_list,
    i,                \* the line cursor, counted from 1
    written           \* what each finished run left: its catalog and the html files

vars ==
    << folders, posts_json, html_files, run, pc, error, existing_posts, posts,
       generated_slugs, items, idx, meta, lines, html_parts, in_list, i, written >>

scanner == << lines, html_parts, in_list, i >>

Init ==
    /\ folders \in FolderStates
    /\ posts_json \in CatalogFiles
    /\ html_files = EmptyDict
    /\ run = 0
    /\ pc = "idle"
    /\ error = ""
    /\ existing_posts = JsonList(<<>>)
    /\ posts = <<>>
    /\ generated_slugs = {}
    /\ items = <<>>
    /\ idx = 1
    /\ meta = EmptyDict
    /\ lines = <<>>
    /\ html_parts = <<>>
    /\ in_list = FALSE
    /\ i = 1
    /\ written = <<>>

(***************************************************************************)
(* build_blog: loading the catalog and listing BLOG_DIR                    *)
(***************************************************************************)

\* sorted(...) of a set of names
RECURSIVE SortNames(_)
SortNames(S) ==
    IF S = {} THEN <<>>
    ELSE LET least == CHOOSE x \in S : \A y \in S : ~StrLess(y, x)
         IN  <<least>> \o SortNames(S \ {least})

\* The entries of BLOG_DIR: its directories, the script, the html files
\* written so far and the catalog file if it exists
DirEntries(html, catalog) ==
    Directories \cup { <<"b", "u", "i", "l", "d", ".", "p", "y">> } \cup DOMAIN html
        \cup (IF catalog.kind = "absent" THEN {}
              ELSE { <<"p", "o", "s", "t", "s", ".", "j", "s", "o", "n">> })

\* json.loads(POSTS_JSON.read_text()) guarded by exists() and by the
\* except clause for JSONDecodeError and ValueError
load_existing(catalog) ==
    IF catalog.kind \in {"absent", "invalid"} THEN JsonList(<<>>) ELSE catalog

\* Lines 365-381: the start of a run
Start ==
    /\ pc \in {"idle", "done", "aborted"}
    /\ run < MaxRuns
    /\ run' = run + 1
    /\ pc' = "scan"
    /\ error' = ""
    /\ existing_posts' = load_existing(posts_json)
    /\ posts' = <<>>
    /\ generated_slugs' = {}
    /\ items' = SortNames(DirEntries(html_files, posts_json))
    /\ idx' = 1
    /\ meta' = EmptyDict
    /\ lines' = <<>>
    /\ html_parts' = <<>>
    /\ in_list' = FALSE
    /\ i' = 1
    /\ UNCHANGED << folders, posts_json, html_files, written >>

(***************************************************************************)
(* build_blog: the folder loop                                             *)
(***************************************************************************)

skip_dirs == {NameImg}

item == items[idx]

is_dir(name) == name \in Directories

Excluded(name) ==
    StartsWith(name, <<"_">>) \/ StartsWith(name, <<".">>) \/ name \in skip_dirs

Scanning == pc = "scan" /\ idx <= Len(items)

\* The folder is one the run builds: lines 382-389 let it through
HasTxt == is_dir(item) /\ ~Excluded(item) /\ folders[item].has_txt

raw == folders[item].raw

header_part == SplitOnce(raw, Separator)[1]

body_part == SplitOnce(raw, Separator)[2]

HasSeparator == Contains(raw, Separator)

\* A faulty test, to check C11 against: the key is looked up, its value is
\* not
NoTitleKey(m) == NASLOV \notin DOMAIN m

\* not meta.get("NASLOV")
NoTitle(m) == Get(m, NASLOV, <<>>) = <<>>

NextItem ==
    /\ idx' = idx + 1
    /\ UNCHANGED << folders, posts_json, html_files, run, pc, error, existing_posts,
                    posts, items, meta, scanner, written >>

\* Lines 382-383
SkipNotDir ==
    /\ Scanning
    /\ ~is_dir(item)
    /\ NextItem
    /\ UNCHANGED generated_slugs

\* Lines 384-385
SkipExcluded ==
    /\ Scanning
    /\ is_dir(item)
    /\ Excluded(item)
    /\ NextItem
    /\ UNCHANGED generated_slugs

\* Lines 387-389
SkipNoTxt ==
    /\ Scanning
    /\ is_dir(item)
    /\ ~Excluded(item)
    /\ ~folders[item].has_txt
    /\ NextItem
    /\ UNCHANGED generated_slugs

\* The slugs after line 393
AddSlug(slugs, slug) == slugs \cup {slug}

\* Lines 391-405: no separator in the text
SkipNoSeparator ==
    /\ Scanning
    /\ HasTxt
    /\ ~HasSeparator
    /\ generated_slugs' = AddSlug(generated_slugs, item)
    /\ NextItem

\* Lines 391-411: no NASLOV in the header
SkipNoTitle ==
    /\ Scanning
    /\ HasTxt
    /\ HasSeparator
    /\ NoTitle(parse_metadata(header_part))
    /\ generated_slugs' = AddSlug(generated_slugs, item)
    /\ NextItem

\* Lines 391-414 and 65-68: the folder is built; txt_to_html_content starts
BeginBody ==
    /\ Scanning
    /\ HasTxt
    /\ HasSeparator
    /\ ~NoTitle(parse_metadata(header_part))
    /\ generated_slugs' = AddSlug(generated_slugs, item)
    /\ meta' = parse_metadata(header_part)
    /\ lines' = SplitLines(Strip(body_part))
    /\ html_parts' = <<>>
    /\ in_list' = FALSE
    /\ i' = 1
    /\ pc' = "body"
    /\ UNCHANGED << folders, posts_json, html_files, run, error, existing_posts, posts,
                    items, idx, written >>

(***************************************************************************)
(* txt_to_html_content: one action for each rule of the line loop          *)
(***************************************************************************)

H2Mark == <<"#", "#", " ">>

H3Mark == <<"#", "#", "#", " ">>

QuoteMark == <<">", " ">>

ItemMark == <<"-", " ">>

InBody == pc = "body" /\ i <= Len(lines)

stripped == Strip(lines[i])

IsBlank(l) == l = <<>>

IsImage(l) == img_match(l).ok

IsH2(l) == StartsWith(l, H2Mark) /\ ~StartsWith(l, H3Mark)

IsH3(l) == StartsWith(l, H3Mark)

IsQuote(l) == StartsWith(l, QuoteMark)

IsItem(l) == StartsWith(l, ItemMark)

\* A faulty closing, to check C13 against: the open list is left open
LeaveOpen(parts, open) == parts

\* The fragments with the open list, if any, closed
CloseList(parts, open) == IF open THEN Append(parts, <<"        </ul>">>) ELSE parts

BodyUnchanged ==
    UNCHANGED << folders, posts_json, html_files, run, pc, error, existing_posts, posts,
                 generated_slugs, items, idx, meta, lines, written >>

\* Lines 74-80
BlankLine ==
    /\ InBody
    /\ IsBlank(stripped)
    /\ html_parts' = CloseList(html_parts, in_list)
    /\ in_list' = FALSE
    /\ i' = i + 1
    /\ BodyUnchanged

\* The fragments of a figure, lines 90-94
Figure(folder_name, img_file, caption) ==
    << <<"        <figure class=\"blog-figure\">">>,
       <<"          <img src=\"">> \o folder_name \o <<"/">> \o img_file
           \o <<"\" alt=\"">> \o caption \o <<"\" loading=\"lazy\">">> >>
    \o (IF caption # <<>>
        THEN << <<"          <figcaption>">> \o caption \o <<"</figcaption>">> >>
        ELSE <<>>)
    \o << <<"        </figure>">> >>

\* Lines 82-96
ImageLine ==
    /\ InBody
    /\ ~IsBlank(stripped)
    /\ IsImage(stripped)
    /\ html_parts' = CloseList(html_parts, in_list)
                        \o Figure(item, img_match(stripped).file,
                                  img_match(stripped).caption)
    /\ in_list' = FALSE
    /\ i' = i + 1
    /\ BodyUnchanged

\* Lines 98-106
H2Line ==
    /\ InBody
    /\ ~IsBlank(stripped) /\ ~IsImage(stripped)
    /\ IsH2(stripped)
    /\ html_parts' = Append(CloseList(html_parts, in_list),
                            <<"        <h2>">> \o inline_format(Strip(Drop(stripped, 3)))
                                \o <<"</h2>">>)
    /\ in_list' = FALSE
    /\ i' = i + 1
    /\ BodyUnchanged

\* Lines 108-116
H3Line ==
    /\ InBody
    /\ ~IsBlank(stripped) /\ ~IsImage(stripped) /\ ~IsH2(stripped)
    /\ IsH3(stripped)
    /\ html_parts' = Append(CloseList(html_parts, in_list),
                            <<"        <h3>">> \o inline_format(Strip(Drop(stripped, 4)))
                                \o <<"</h3>">>)
    /\ in_list' = FALSE
    /\ i' = i + 1
    /\ BodyUnchanged

\* A faulty collection, to check C15 against: the loop of line 125 is left
\* out and each line is a blockquote of its own
OneLine(ls, k) == 1

\* The lines from index k on that the loop of line 125 collects
RECURSIVE QuoteRun(_, _)
QuoteRun(ls, k) ==
    IF k <= Len(ls) /\ IsQuote(Strip(ls[k])) THEN 1 + QuoteRun(ls, k + 1) ELSE 0

quote_lines(ls, k) == [j \in 1..QuoteRun(ls, k) |-> Drop(Strip(ls[k + j - 1]), 2)]

\* Lines 118-132
QuoteLines ==
    /\ InBody
    /\ ~IsBlank(stripped) /\ ~IsImage(stripped) /\ ~IsH2(stripped) /\ ~IsH3(stripped)
    /\ IsQuote(stripped)
    /\ html_parts' = CloseList(html_parts, in_list)
                        \o << <<"        <blockquote>">>,
                              <<"          ">> \o inline_format(JoinSpace(quote_lines(lines, i))),
                              <<"        </blockquote>">> >>
    /\ in_list' = FALSE
    /\ i' = i + QuoteRun(lines, i)
    /\ BodyUnchanged

\* Lines 134-142
ItemLine ==
    /\ InBody
    /\ ~IsBlank(stripped) /\ ~IsImage(stripped) /\ ~IsH2(stripped) /\ ~IsH3(stripped)
    /\ ~IsQuote(stripped)
    /\ IsItem(stripped)
    /\ html_parts' = Append(IF in_list THEN html_parts
                            ELSE Append(html_parts, <<"        <ul>">>),
                            <<"          <li>">> \o inline_format(Strip(Drop(stripped, 2)))
                                \o <<"</li>">>)
    /\ in_list' = TRUE
    /\ i' = i + 1
    /\ BodyUnchanged

\* The test of line 153 that ends a paragraph
EndsParagraph(l) ==
    \/ IsBlank(l)
    \/ StartsWith(l, H2Mark) \/ StartsWith(l, H3Mark)
    \/ StartsWith(l, QuoteMark) \/ StartsWith(l, ItemMark)
    \/ StartsWith(l, SLIKA)

\* The lines from index k on that the loop of lines 151-156 collects
RECURSIVE ParaRun(_, _)
ParaRun(ls, k) ==
    IF k <= Len(ls) /\ ~EndsParagraph(Strip(ls[k])) THEN 1 + ParaRun(ls, k + 1) ELSE 0

para_lines(ls, k) == [j \in 1..ParaRun(ls, k) |-> Strip(ls[k + j - 1])]

\* Lines 144-159.  An iteration that collects no line leaves the cursor in
\* place and the loop never ends; the model follows it for MaxParts
\* fragments.
ParagraphLines ==
    /\ InBody
    /\ ~IsBlank(stripped) /\ ~IsImage(stripped) /\ ~IsH2(stripped) /\ ~IsH3(stripped)
    /\ ~IsQuote(stripped) /\ ~IsItem(stripped)
    /\ ParaRun(lines, i) > 0 \/ Len(html_parts) < MaxParts
    /\ html_parts' = Append(CloseList(html_parts, in_list),
                            <<"        <p>">> \o inline_format(JoinSpace(para_lines(lines, i)))
                                \o <<"</p>">>)
    /\ in_list' = FALSE
    /\ i' = i + ParaRun(lines, i)
    /\ BodyUnchanged

\* "\n".join(html_parts)
RECURSIVE JoinLines(_)
JoinLines(parts) ==
    IF parts = <<>> THEN <<>>
    ELSE IF Len(parts) = 1 THEN parts[1]
    ELSE parts[1] \o <<"\n">> \o JoinLines(Tail(parts))

\* A faulty return, to check C19 against: lines 161-162 are left out
content_unclosed == JoinLines(html_parts)

\* Lines 161-164: the value txt_to_html_content returns
content_html == JoinLines(CloseList(html_parts, in_list))

(***************************************************************************)
(* build_blog: the html file and the record of a built folder              *)
(***************************************************************************)

DefaultDate == <<"2", "0", "2", "6", "-", "0", "1", "-", "0", "1">>

\* "Clanak" with a caron on the C
DefaultTag == <<"C", "l", "a", "n", "a", "k">>

DefaultThumb == <<".", ".", "/", "i", "m", "g", ".", "p", "n", "g">>

IMAGE_EXTENSIONS ==
    { <<".", "p", "n", "g">>, <<".", "j", "p", "g">>, <<".", "j", "p", "e", "g">>,
      <<".", "w", "e", "b", "p">>, <<".", "g", "i", "f">>, <<".", "s", "v", "g">> }

\* Path.suffix: from the last dot on, unless the name starts or ends with it
Suffix(name) ==
    LET dots == { k \in 1..Len(name) : name[k] = "." }
    IN  IF dots = {} \/ Max(dots) = 1 \/ Max(dots) = Len(name) THEN <<>>
        ELSE Drop(name, Max(dots) - 1)

\* find_first_image(folder_path) for a folder holding the given files
find_first_image(files) ==
    LET images == { f \in files : Lower(Suffix(f)) \in IMAGE_EXTENSIONS }
    IN  IF images = {} THEN <<>> ELSE SortNames(images)[1]

\* Lines 422-428
thumb(folder_name, m) ==
    LET hero == Get(m, HERO, <<>>)
        first_img == find_first_image(FolderFiles(folder_name))
    IN  IF hero # <<>> THEN folder_name \o <<"/">> \o hero
        ELSE IF first_img # <<>> THEN folder_name \o <<"/">> \o first_img
        ELSE DefaultThumb

\* Lines 431-438: the record appended to posts
post_record(folder_name, m) ==
    [ file        |-> FileOf(folder_name),
      title       |-> m[NASLOV],
      description |-> Get(m, OPIS, <<>>),
      date        |-> Get(m, DATUM, DefaultDate),
      image       |-> thumb(folder_name, m),
      tag         |-> Get(m, KATEGORIJA, DefaultTag) ]

\* generate_html: the values the page template interpolates
generate_html(m, content, folder_name) ==
    [ title   |-> Get(m, NASLOV, <<"B", "l", "o", "g", " ", "P", "o", "s", "t">>),
      desc    |-> Get(m, OPIS, <<>>),
      date    |-> Get(m, DATUM, DefaultDate),
      date_hr |-> format_date_hr(Get(m, DATUM, DefaultDate)),
      tag     |-> Get(m, KATEGORIJA, DefaultTag),
      hero    |-> IF Get(m, HERO, <<>>) # <<>>
                  THEN folder_name \o <<"/">> \o Get(m, HERO, <<>>) ELSE <<>>,
      slug    |-> folder_name,
      content |-> content ]

BodyDone == pc = "body" /\ i > Len(lines)

\* Line 186 raises: format_date_hr cannot parse the date
DateFails == ~format_date_hr(Get(meta, DATUM, DefaultDate)).ok

Abort(exception) ==
    /\ pc' = "aborted"
    /\ error' = exception
    /\ UNCHANGED << folders, posts_json, html_files, run, existing_posts, posts,
                    generated_slugs, items, idx, meta, scanner, written >>

\* Lines 414-417 when generate_html raises ValueError
BuildAbort ==
    /\ BodyDone
    /\ DateFails
    /\ Abort("ValueError")

\* Lines 414-438: the html file is written and the record appended
BuildPost ==
    /\ BodyDone
    /\ ~DateFails
    /\ html_files' = DictPut(html_files, FileOf(item),
                             generate_html(meta, content_html, item))
    /\ posts' = Append(posts, post_record(item, meta))
    /\ idx' = idx + 1
    /\ pc' = "scan"
    /\ UNCHANGED << folders, posts_json, run, error, existing_posts, generated_slugs,
                    items, meta, scanner, written >>

(***************************************************************************)
(* build_blog: the merge with the persisted catalog                        *)
(***************************************************************************)

\* Line 442
ep_slug(ep) == RemoveAll(Get(ep, "file", <<>>), DotHtml)

\* Line 443
IsManual(ep, slugs) == ep_slug(ep) \notin slugs

\* Lines 441-444
RECURSIVE manual_posts(_, _)
manual_posts(eps, slugs) ==
    IF eps = <<>> THEN <<>>
    ELSE (IF IsManual(eps[1], slugs) THEN <<eps[1]>> ELSE <<>>)
         \o manual_posts(Tail(eps), slugs)

\* The sort key of line 448
date_key(p) == Get(p, "date", <<>>)

\* A faulty insertion, to test C9 against: x comes before the records of
\* its own date, so that records of one date end in reverse order
InsertBeforeEqual(sorted, x) ==
    LET n == Cardinality({ k \in 1..Len(sorted) :
                             StrLess(date_key(x), date_key(sorted[k])) })
    IN  Take(sorted, n) \o <<x>> \o Drop(sorted, n)

\* x comes after every record of sorted whose key is not less than its own
InsertByDate(sorted, x) ==
    LET n == Cardinality({ k \in 1..Len(sorted) :
                             ~StrLess(date_key(sorted[k]), date_key(x)) })
    IN  Take(sorted, n) \o <<x>> \o Drop(sorted, n)

\* list.sort(key=date_key, reverse=True): descending and stable
RECURSIVE SortFrom(_, _)
SortFrom(sorted, rest) ==
    IF rest = <<>> THEN sorted
    ELSE SortFrom(InsertByDate(sorted, rest[1]), Tail(rest))

\* A faulty sort, to test C8 against: reverse=True is left out
RECURSIVE SortAscendingFrom(_, _)
SortAscendingFrom(sorted, rest) ==
    IF rest = <<>> THEN sorted
    ELSE LET x == rest[1]
             n == Cardinality({ k \in 1..Len(sorted) :
                                  ~StrLess(date_key(x), date_key(sorted[k])) })
         IN  SortAscendingFrom(Take(sorted, n) \o <<x>> \o Drop(sorted, n), Tail(rest))

sort_ascending(all) == SortAscendingFrom(<<>>, all)

sort_by_date(all) == SortFrom(<<>>, all)

\* Lines 446-448
all_posts == sort_by_date(posts \o manual_posts(existing_posts.items, generated_slugs))

\* A faulty test, to check C12 against: the merge does not wait for the end
\* of the folder loop
ScanAny == pc = "scan"

ScanDone == pc = "scan" /\ idx > Len(items)

\* Line 441 raises TypeError: the JSON value cannot be iterated
MergeNotIterable ==
    /\ ScanDone
    /\ existing_posts.kind = "scalar"
    /\ Abort("TypeError")

\* Line 442 raises AttributeError: an element has no get
MergeNotObject ==
    /\ ScanDone
    /\ existing_posts.kind # "scalar"
    /\ \E k \in 1..Len(existing_posts.items) : ~IsObject(existing_posts.items[k])
    /\ Abort("AttributeError")

\* Lines 440-455: the catalog is merged, sorted and written
WriteCatalog ==
    /\ ScanDone
    /\ existing_posts.kind # "scalar"
    /\ \A k \in 1..Len(existing_posts.items) : IsObject(existing_posts.items[k])
    /\ posts_json' = JsonList(all_posts)
    /\ written' = Append(written, [catalog |-> all_posts, html |-> html_files])
    /\ pc' = "done"
    /\ UNCHANGED << folders, html_files, run, error, existing_posts, posts,
                    generated_slugs, items, idx, meta, scanner >>

Next ==
    \/ Start
    \/ SkipNotDir \/ SkipExcluded \/ SkipNoTxt \/ SkipNoSeparator \/ SkipNoTitle
    \/ BeginBody
    \/ BlankLine \/ ImageLine \/ H2Line \/ H3Line \/ QuoteLines \/ ItemLine
    \/ ParagraphLines
    \/ BuildAbort \/ BuildPost
    \/ MergeNotIterable \/ MergeNotObject \/ WriteCatalog

Spec == Init /\ [][Next]_vars

(***************************************************************************)
(* txt_to_html_content on its own: the run stands at the folder a, whose   *)
(* body is any text of up to MaxLines lines                                *)
(***************************************************************************)

\* The lines a body is made of: one or two for each rule of the line loop,
\* and an image directive without its closing bracket
BodyLines ==
    { <<>>,
      <<"-", " ", "a">>,
      <<" ", "-", " ", "b">>,
      <<">", " ", "q">>,
      <<">", " ", "r">>,
      <<"#", "#", " ", "h">>,
      <<"#", "#", "#", " ", "s">>,
      SLIKA \o <<" ", "i", "]">>,
      <<"p">>,
      SLIKA \o <<" ", "x">> }

Bodies == UNION { [1..n -> BodyLines] : n \in 0..MaxLines }

\* BLOG_DIR with sadrzaj.txt in the folder a only
OnlyA(raw_text) == [n \in Directories |-> IF n = NameA THEN WithTxt(raw_text) ELSE NoTxt]

\* The state of a first run that found no catalog and has come to the
\* folder a
AtFolderA(raw_text) ==
    /\ folders = OnlyA(raw_text)
    /\ posts_json = Json("absent", <<>>)
    /\ html_files = EmptyDict
    /\ run = 1
    /\ pc = "scan"
    /\ error = ""
    /\ existing_posts = load_existing(posts_json)
    /\ posts = <<>>
    /\ generated_slugs = {}
    /\ items = SortNames(DirEntries(html_files, posts_json))
    /\ idx = CHOOSE k \in 1..Len(items) : items[k] = NameA
    /\ meta = EmptyDict
    /\ lines = <<>>
    /\ html_parts = <<>>
    /\ in_list = FALSE
    /\ i = 1
    /\ written = <<>>

InitScan == \E body \in Bodies : AtFolderA(Text(<<KV(NASLOV, <<"T">>), Separator>> \o body))

NextScan ==
    \/ BeginBody
    \/ BlankLine \/ ImageLine \/ H2Line \/ H3Line \/ QuoteLines \/ ItemLine
    \/ ParagraphLines
    \/ BuildPost

SpecScan == InitScan /\ [][NextScan]_vars

(***************************************************************************)
(* parse_metadata on its own: the run stands at the folder a, whose header *)
(* is any text of up to MaxHeader lines                                    *)
(***************************************************************************)

\* The lines a header is made of: a title, a title with its key in lower
\* case and blanks around key and value, a title without a value, a value
\* with a colon in it, a line without a colon and a blank line
HeaderLines ==
    { KV(NASLOV, <<"X">>),
      <<" ", "n", "a", "s", "l", "o", "v", " ", ":", "Y", " ">>,
      NASLOV \o <<":">>,
      KV(OPIS, <<"a", ":", "b">>),
      <<"b", "e", "z">>,
      <<>> }

Headers == UNION { [1..n -> HeaderLines] : n \in 0..MaxHeader }

InitMeta == \E header \in Headers : AtFolderA(Text(header \o <<Separator, <<"w">>>>))

NextMeta == SkipNoTitle \/ BeginBody

SpecMeta == InitMeta /\ [][NextMeta]_vars

(***************************************************************************)
(* inline_format on its own: the run stands at the folder a, whose body is *)
(* one paragraph line of up to MaxSpans spans                              *)
(***************************************************************************)

\* The spans a text is made of: a bold span, an italic span, a letter and
\* a blank
SpanPool ==
    { <<"*", "*", "x", "*", "*">>, <<"*", "y", "*">>, <<"a">>, <<" ">> }

RECURSIVE Concat(_)
Concat(parts) == IF parts = <<>> THEN <<>> ELSE parts[1] \o Concat(Tail(parts))

InlineTexts == { Concat(t) : t \in UNION { [1..n -> SpanPool] : n \in 1..MaxSpans } }

InitInline ==
    \E text \in InlineTexts : AtFolderA(Text(<<KV(NASLOV, <<"T">>), Separator, text>>))

NextInline == BeginBody \/ ParagraphLines \/ BuildPost

SpecInline == InitInline /\ [][NextInline]_vars

(***************************************************************************)
(* Properties                                                              *)
(***************************************************************************)

\* The slug of a catalog record: its file name without the ending ".html"
SlugOf(rec) ==
    LET file == Get(rec, "file", <<>>)
    IN  IF Len(file) >= Len(DotHtml) /\ Drop(file, Len(file) - Len(DotHtml)) = DotHtml
        THEN Take(file, Len(file) - Len(DotHtml))
        ELSE file

\* The records of a catalog, as a set
Records(catalog) == { catalog[k] : k \in 1..Len(catalog) }

\* The persisted records the run loaded
Persisted == Records(existing_posts.items)

\* The slugs of the batch: the folders this run parsed and built
BatchSlugs == { SlugOf(posts[k]) : k \in 1..Len(posts) }

\* C1: every iteration of the line loop of txt_to_html_content moves the
\* cursor forward by at least one line, so the loop ends for every body.
C1_CursorAdvances == [][(pc = "body" /\ pc' = "body") => i' > i]_vars

\* C2: the catalog a run writes holds, unchanged, every persisted record
\* whose slug is not the slug of a record generated in this run, also when
\* its folder exists and was skipped.
C2_UnbuiltRecordsKept ==
    pc = "done" =>
        \A ep \in Persisted :
            SlugOf(ep) \notin BatchSlugs => ep \in Records(posts_json.items)

\* C3: no content of a folder aborts the run: a run that stops with an
\* exception has left the folder loop.
C3_FoldersNeverAbort == pc = "aborted" => idx > Len(items)

\* A line of the text is "---"
HasSeparatorLine(text) ==
    \E k \in 1..Len(SplitLines(text)) : Strip(SplitLines(text)[k]) = Separator

\* C4: a folder whose sadrzaj.txt has no line "---" gets no html file and
\* no record in the batch.
C4_NoSeparatorLineSkipped ==
    \A name \in PostFolders :
        (folders[name].has_txt /\ ~HasSeparatorLine(folders[name].raw)) =>
            /\ FileOf(name) \notin DOMAIN html_files
            /\ name \notin BatchSlugs

\* The catalog file is there and is not a JSON array of objects
Malformed(catalog) ==
    \/ catalog.kind \in {"invalid", "scalar", "dict"}
    \/ \E k \in 1..Len(catalog.items) : ~IsObject(catalog.items[k])

\* C5: a run that finds a malformed catalog file goes on as with an empty
\* catalog: it does not stop in the merge, the file still being malformed.
C5_MalformedCatalogIsEmpty ==
    (run > 0 /\ Malformed(posts_json)) => ~(pc = "aborted" /\ idx > Len(items))

\* C6: of every slug built in a run the written catalog holds the fresh
\* record and no other record.
C6_FreshRecordOnly ==
    pc = "done" =>
        \A k \in 1..Len(posts) :
            /\ posts[k] \in Records(posts_json.items)
            /\ \A rec \in Records(posts_json.items) :
                   SlugOf(rec) = SlugOf(posts[k]) => rec = posts[k]

\* C7: every catalog a run writes holds at most one record of each slug.
C7_UniqueSlugs ==
    \A r \in 1..Len(written) :
        \A k, m \in 1..Len(written[r].catalog) :
            SlugOf(written[r].catalog[k]) = SlugOf(written[r].catalog[m]) => k = m

\* C8: every catalog a run writes is in descending order of date: no record
\* has a date less than the date of the record after it.
C8_SortedByDate ==
    \A r \in 1..Len(written) :
        \A k \in 1..(Len(written[r].catalog) - 1) :
            ~StrLess(date_key(written[r].catalog[k]), date_key(written[r].catalog[k + 1]))

\* A catalog with three records or more, not all of one date, one of them
\* without a date
C8_Witness ==
    \E r \in 1..Len(written) :
        /\ Len(written[r].catalog) >= 3
        /\ \E k \in 1..Len(written[r].catalog) : "date" \notin DOMAIN written[r].catalog[k]
        /\ \E k \in 1..(Len(written[r].catalog) - 1) :
               StrLess(date_key(written[r].catalog[k + 1]), date_key(written[r].catalog[k]))

\* The records of a catalog that have the date d, in their order
RECURSIVE OfDate(_, _)
OfDate(catalog, d) ==
    IF catalog = <<>> THEN <<>>
    ELSE (IF date_key(catalog[1]) = d THEN <<catalog[1]>> ELSE <<>>)
         \o OfDate(Tail(catalog), d)

\* The persisted records the run carried over, in their order
Carried == manual_posts(existing_posts.items, generated_slugs)

\* C9: among the records of one date, the written catalog has the batch
\* records first, in the order of the folder scan, and then the carried
\* records, in the order of the persisted catalog.
C9_StableMerge ==
    pc = "done" =>
        \A rec \in Records(posts_json.items) :
            OfDate(posts_json.items, date_key(rec))
                = OfDate(posts, date_key(rec)) \o OfDate(Carried, date_key(rec))

\* Two batch records and two carried records of one date
C9_Witness ==
    /\ pc = "done"
    /\ \E rec \in Records(posts_json.items) :
           /\ Len(OfDate(posts, date_key(rec))) >= 2
           /\ Len(OfDate(Carried, date_key(rec))) >= 2

\* C10: a run on unchanged folders that reads the catalog of the run before
\* it writes the same catalog and the same html files.
C10_Idempotent ==
    \A r \in 1..(Len(written) - 1) : written[r + 1] = written[r]

\* The folder has a sadrzaj.txt with a separator and a header without a
\* NASLOV value
Untitled(name) ==
    /\ folders[name].has_txt
    /\ Contains(folders[name].raw, Separator)
    /\ Get(parse_metadata(SplitOnce(folders[name].raw, Separator)[1]), NASLOV, <<>>) = <<>>

\* The step of the folder loop at an untitled folder writes nothing and
\* goes on to the next entry of the directory
UntitledStep ==
    (Scanning /\ is_dir(item) /\ ~Excluded(item) /\ Untitled(item)) =>
        /\ pc' = "scan"
        /\ idx' = idx + 1
        /\ posts' = posts
        /\ html_files' = html_files
        /\ posts_json' = posts_json

CatalogWrittenLast ==
    /\ (posts_json' # posts_json \/ written' # written) =>
           /\ pc = "scan" /\ idx > Len(items)
           /\ pc' = "done"
    /\ (pc # "done" /\ pc' = "done") =>
           /\ Len(written') = Len(written) + 1
           /\ posts_json' = JsonList(written'[Len(written')].catalog)
           /\ html_files' = html_files
    /\ pc = "done" => run' = run + 1

\* C12: a run writes the catalog file once, as its last step, after the
\* folder loop and the html files; in every earlier state of the run, also
\* of a run that aborts, the catalog file is as it was before the run.
C12_CatalogWrittenOnceLast ==
    /\ [](Len(written) <= run)
    /\ [](pc = "done" => Len(written) >= 1 /\ posts_json.items = written[Len(written)].catalog)
    /\ [][CatalogWrittenLast]_vars

\* A finished run that built two folders and wrote a catalog other than the
\* one it found
C12_Witness ==
    /\ pc = "done"
    /\ Len(posts) >= 2
    /\ posts_json # existing_posts
    /\ \A k \in 1..Len(posts) : posts[k].file \in DOMAIN html_files

\* The list blocks of a sequence of fragments, read from the left: a block
\* is opened by <ul>, holds the texts of the <li> that follow and is closed
\* by </ul>.  ok is false if a list is opened inside a list, an item or a
\* closing tag stands outside a list, or another fragment stands inside one.
RECURSIVE ListBlocks(_, _, _)
ListBlocks(parts, blocks, open) ==
    IF parts = <<>> THEN [ok |-> TRUE, blocks |-> blocks, open |-> open]
    ELSE LET kind == parts[1][1]
             n == Len(blocks)
             bad == [ok |-> FALSE, blocks |-> blocks, open |-> open]
         IN  IF kind = "        <ul>"
             THEN IF open THEN bad
                  ELSE ListBlocks(Tail(parts), Append(blocks, <<>>), TRUE)
             ELSE IF kind = "          <li>"
             THEN IF ~open THEN bad
                  ELSE ListBlocks(Tail(parts),
                                  [blocks EXCEPT ![n] =
                                      Append(@, SubSeq(parts[1], 2, Len(parts[1]) - 1))],
                                  TRUE)
             ELSE IF kind = "        </ul>"
             THEN IF ~open THEN bad ELSE ListBlocks(Tail(parts), blocks, FALSE)
             ELSE IF open THEN bad ELSE ListBlocks(Tail(parts), blocks, FALSE)

\* Line k of the body begins with "- "
ItemAt(k) == k \in 1..Len(lines) /\ StartsWith(Strip(lines[k]), <<"-", " ">>)

\* The runs of item lines among the first n lines of the body, each as the
\* sequence of its items' texts
ItemRuns(n) ==
    LET starts == { k \in 1..n : ItemAt(k) /\ ~ItemAt(k - 1) }
        first(r) == CHOOSE k \in starts : Cardinality({ j \in starts : j < k }) = r - 1
        last(k) == Max({ j \in k..n : \A m \in k..j : ItemAt(m) })
    IN  [ r \in 1..Cardinality(starts) |->
            [ j \in 1..(last(first(r)) - first(r) + 1) |->
                inline_format(Strip(Drop(Strip(lines[first(r) + j - 1]), 2))) ] ]

\* The scan of the body has begun: in the line loop, or past it
Scanned == pc = "body" \/ (pc = "scan" /\ posts # <<>>)

\* C13: every run of consecutive lines beginning with "- " yields one list
\* block with the texts of those lines in their order; the block is closed
\* before any other fragment is emitted, and at the end of the body.
C13_OneListPerRun ==
    /\ pc = "body" =>
           /\ ListBlocks(html_parts, <<>>, FALSE).ok
           /\ ListBlocks(html_parts, <<>>, FALSE).blocks = ItemRuns(i - 1)
    /\ (Scanned /\ i > Len(lines)) =>
           /\ ListBlocks(CloseList(html_parts, in_list), <<>>, FALSE).ok
           /\ ~ListBlocks(CloseList(html_parts, in_list), <<>>, FALSE).open
           /\ ListBlocks(CloseList(html_parts, in_list), <<>>, FALSE).blocks
                  = ItemRuns(Len(lines))

\* A body scanned to its end with a list of two items that another block
\* follows
C13_Witness ==
    /\ Scanned /\ i > Len(lines)
    /\ \E k \in 1..(Len(lines) - 2) :
           ItemAt(k) /\ ItemAt(k + 1) /\ ~ItemAt(k + 2) /\ lines[k + 2] # <<>>
    /\ Len(ItemRuns(Len(lines))) = 1

\* Line k of the body is a paragraph line: not blank, and none of the
\* rules before the paragraph rule applies to it
ParagraphAt(k) ==
    /\ k \in 1..Len(lines)
    /\ Strip(lines[k]) # <<>>
    /\ ~img_match(Strip(lines[k])).ok
    /\ ~StartsWith(Strip(lines[k]), <<"#", "#", " ">>)
    /\ ~StartsWith(Strip(lines[k]), <<"#", "#", "#", " ">>)
    /\ ~StartsWith(Strip(lines[k]), <<">", " ">>)
    /\ ~StartsWith(Strip(lines[k]), <<"-", " ">>)

\* The last of the paragraph lines that follow one another from line k on
ParagraphEnd(k) == Max({ j \in k..Len(lines) : \A m \in k..j : ParagraphAt(m) })

\* C14: at a paragraph line the loop consumes that line and the paragraph
\* lines right after it, and emits one paragraph of their trimmed texts; a
\* line that begins like an image directive and fails the image pattern is
\* a paragraph line.
C14_ParagraphConsumesRun ==
    [][(pc = "body" /\ i <= Len(lines) /\ ParagraphAt(i)) =>
          /\ i' = ParagraphEnd(i) + 1
          /\ html_parts' =
                 Append(CloseList(html_parts, in_list),
                        <<"        <p>">>
                        \o inline_format(JoinSpace([ j \in 1..(ParagraphEnd(i) - i + 1) |->
                                                       Strip(lines[i + j - 1]) ]))
                        \o <<"</p>">>)]_vars

\* Line k of the body begins with "> "
QuoteAt(k) == k \in 1..Len(lines) /\ StartsWith(Strip(lines[k]), <<">", " ">>)

\* The last of the quote lines that follow one another from line k on
QuoteEnd(k) == Max({ j \in k..Len(lines) : \A m \in k..j : QuoteAt(m) })

\* The text of the run of quote lines that starts at line k: the lines
\* without their two-character prefix, joined by single spaces
QuoteText(k) ==
    inline_format(JoinSpace([ j \in 1..(QuoteEnd(k) - k + 1) |->
                                Drop(Strip(lines[k + j - 1]), 2) ]))

\* The texts of the runs of quote lines that start among the first n lines
QuoteRuns(n) ==
    LET starts == { k \in 1..n : QuoteAt(k) /\ ~QuoteAt(k - 1) }
        first(r) == CHOOSE k \in starts : Cardinality({ j \in starts : j < k }) = r - 1
    IN  [ r \in 1..Cardinality(starts) |-> QuoteText(first(r)) ]

\* The texts of the blockquotes among the fragments
RECURSIVE Blockquotes(_)
Blockquotes(parts) ==
    IF Len(parts) < 3 THEN <<>>
    ELSE IF parts[1] = <<"        <blockquote>">>
              /\ parts[2][1] = "          "
              /\ parts[3] = <<"        </blockquote>">>
         THEN <<Tail(parts[2])>> \o Blockquotes(SubSeq(parts, 4, Len(parts)))
         ELSE Blockquotes(Tail(parts))

\* C15: every run of consecutive lines beginning with "> " yields one
\* blockquote, whose text is those lines without their prefix joined by
\* single spaces in their order, and the cursor ends on the line after the
\* run.
C15_OneQuotePerRun ==
    /\ [](pc = "body" => Blockquotes(html_parts) = QuoteRuns(i - 1))
    /\ [][(pc = "body" /\ QuoteAt(i)) =>
              /\ i' = QuoteEnd(i) + 1
              /\ Blockquotes(html_parts') = Append(Blockquotes(html_parts), QuoteText(i))]_vars

\* A body scanned to its end in which two different quote lines follow one
\* another and made the one blockquote of the output
C15_Witness ==
    /\ Scanned /\ i > Len(lines)
    /\ \E k \in 1..(Len(lines) - 1) :
           QuoteAt(k) /\ QuoteAt(k + 1) /\ lines[k] # lines[k + 1]
    /\ Len(Blockquotes(html_parts)) = 1

\* The header of the folder a: its text up to the separator
HeaderOfA == Take(folders[NameA].raw, Find(folders[NameA].raw, Separator) - 1)

\* Line r of a text, trimmed: what stands between its line breaks r - 1 and r
TrimmedLine(h, r) ==
    LET breaks == { p \in 1..Len(h) : h[p] = "\n" } \cup {0, Len(h) + 1}
        from == CHOOSE p \in breaks : Cardinality({ q \in breaks : q < p }) = r - 1
        to == CHOOSE p \in breaks : Cardinality({ q \in breaks : q < p }) = r
    IN  Strip(SubSeq(h, from + 1, to - 1))

\* The lines of a text that hold a colon
Carrying(h) ==
    { r \in 1..(Cardinality({ p \in 1..Len(h) : h[p] = "\n" }) + 1) :
        \E p \in 1..Len(TrimmedLine(h, r)) : TrimmedLine(h, r)[p] = ":" }

FirstColon(l) == Min({ p \in 1..Len(l) : l[p] = ":" })

\* The key of a line that holds a colon: what stands before its first
\* colon, trimmed and in upper case; its value: what stands after, trimmed
KeyOf(h, r) == Upper(Strip(SubSeq(TrimmedLine(h, r), 1, FirstColon(TrimmedLine(h, r)) - 1)))

ValueOf(h, r) ==
    Strip(SubSeq(TrimmedLine(h, r), FirstColon(TrimmedLine(h, r)) + 1,
                 Len(TrimmedLine(h, r))))

\* Each key of the text with the value of the last line that carries it
LastWins(h) ==
    [ key \in { KeyOf(h, r) : r \in Carrying(h) } |->
        ValueOf(h, Max({ r \in Carrying(h) : KeyOf(h, r) = key })) ]

\* C16: parse_metadata maps each key of the header, trimmed and in upper
\* case, to the trimmed value of the last line that carries it, each line
\* split at its first colon: so the folder loop finds it, and so the
\* metadata of a built folder are.
C16_LastValueOfEachKey ==
    /\ parse_metadata(HeaderOfA) = LastWins(HeaderOfA)
    /\ pc = "body" => meta = LastWins(HeaderOfA) /\ Get(meta, NASLOV, <<>>) # <<>>
    /\ (pc = "scan" /\ item # NameA) => Get(LastWins(HeaderOfA), NASLOV, <<>>) = <<>>

\* A header parsed in which two lines carry NASLOV, in different case and
\* with different values, the last of which is the title
C16_Witness ==
    /\ pc = "body"
    /\ \E r, t \in Carrying(HeaderOfA) :
           /\ r < t
           /\ KeyOf(HeaderOfA, r) = NASLOV /\ KeyOf(HeaderOfA, t) = NASLOV
           /\ TrimmedLine(HeaderOfA, r) = KV(NASLOV, <<"X">>)
           /\ ValueOf(HeaderOfA, t) = <<"Y">>
           /\ meta[NASLOV] = <<"Y">>

\* The folder a record of the batch was built from
FolderOf(rec) == CHOOSE name \in PostFolders : FileOf(name) = rec.file

\* The HERO value of the header of a folder, empty if it has none
HeroOf(name) ==
    Get(LastWins(Take(folders[name].raw, Find(folders[name].raw, Separator) - 1)),
        HERO, <<>>)

\* The files of a folder whose name ends, in whatever case, with one of the
\* image extensions after at least one other character
ImagesOf(name) ==
    { f \in FolderFiles(name) :
        \E ext \in IMAGE_EXTENSIONS :
            /\ Len(f) > Len(ext)
            /\ [k \in 1..Len(ext) |-> LowerChar(f[Len(f) - Len(ext) + k])] = ext }

\* The thumbnail by priority: the hero, the first image by name, the default
ThumbOf(name) ==
    IF HeroOf(name) # <<>> THEN name \o <<"/">> \o HeroOf(name)
    ELSE IF ImagesOf(name) # {}
    THEN name \o <<"/">>
         \o (CHOOSE f \in ImagesOf(name) : \A g \in ImagesOf(name) : ~StrLess(g, f))
    ELSE DefaultThumb

\* C17: the image of every record a run has built is folder/HERO if the
\* header sets HERO, else folder/file for the first, by name, of the
\* folder's files with an image extension in any case, else the default
\* image.
C17_ThumbnailPriority ==
    pc \in {"done", "aborted"} =>
        \A k \in 1..Len(posts) : posts[k].image = ThumbOf(FolderOf(posts[k]))

\* A finished run with the three cases: a hero in a folder that holds
\* images, the first of two images of a folder without hero, and the
\* default for a folder without hero and without images
C17_Witness ==
    /\ pc = "done"
    /\ \E k \in 1..Len(posts) :
           HeroOf(FolderOf(posts[k])) # <<>> /\ ImagesOf(FolderOf(posts[k])) # {}
    /\ \E k \in 1..Len(posts) :
           HeroOf(FolderOf(posts[k])) = <<>> /\ Cardinality(ImagesOf(FolderOf(posts[k]))) >= 2
    /\ \E k \in 1..Len(posts) : posts[k].image = DefaultThumb

\* The text read from the left as bold spans **X**, italic spans *Y* and
\* other characters, X and Y without asterisk and not empty: each bold span
\* strong-wrapped, each italic span emphasis-wrapped.  ok is false if the
\* text cannot be read so.
RECURSIVE Wrapped(_)
Wrapped(text) ==
    IF text = <<>> THEN [ok |-> TRUE, out |-> <<>>]
    ELSE IF text[1] # "*"
    THEN [ok |-> Wrapped(Tail(text)).ok, out |-> <<text[1]>> \o Wrapped(Tail(text)).out]
    ELSE IF Len(text) >= 2 /\ text[2] = "*"
    THEN LET n == RunLen(text, 3, {"*"})
             rest == Wrapped(Drop(text, n + 4))
         IN  IF n >= 1 /\ At(text, n + 3, <<"*", "*">>)
             THEN [ok |-> rest.ok,
                   out |-> <<"<strong>">> \o SubSeq(text, 3, n + 2) \o <<"</strong>">>
                           \o rest.out]
             ELSE [ok |-> FALSE, out |-> <<>>]
    ELSE LET n == RunLen(text, 2, {"*"})
             rest == Wrapped(Drop(text, n + 2))
         IN  IF n >= 1 /\ At(text, n + 2, <<"*">>)
             THEN [ok |-> rest.ok,
                   out |-> <<"<em>">> \o SubSeq(text, 2, n + 1) \o <<"</em>">> \o rest.out]
             ELSE [ok |-> FALSE, out |-> <<>>]

\* C18: for a paragraph line made of bold spans, italic spans and other
\* text, the spans apart from one another and without asterisk inside,
\* inline_format wraps every bold span in strong and every italic span in
\* emphasis, in their order, and takes no bold marker for an italic one.
C18_SpansWrappedInOrder ==
    (pc = "body" /\ html_parts # <<>> /\ Wrapped(lines[1]).ok) =>
        html_parts[1] = <<"        <p>">> \o Wrapped(lines[1]).out \o <<"</p>">>

\* txt_to_html_content has returned and the folder is built
Returned == pc = "scan" /\ posts # <<>>

\* In the line loop the fragments are well-formed as to lists, and in_list
\* is true exactly if a <ul> stands without its </ul>
FlagIsOpenList ==
    pc = "body" =>
        /\ ListBlocks(html_parts, <<>>, FALSE).ok
        /\ in_list <=> ListBlocks(html_parts, <<>>, FALSE).open

\* C19 as stated: the list tags of the fragments are balanced and not
\* nested, in_list is true exactly while a <ul> is open, items are emitted
\* inside a list and other blocks outside, and in_list is false when the
\* function returns.
C19_FlagFalseAtReturn ==
    /\ FlagIsOpenList
    /\ Returned =>
           /\ ~in_list
           /\ ~ListBlocks(html_parts, <<>>, FALSE).open

\* C19 amended: as stated, except that at the return it is the fragments
\* that are balanced, the closing tag of a list still open being appended
\* to what is returned, while in_list is left as it was.
C19_BalancedAtReturn ==
    /\ FlagIsOpenList
    /\ Returned =>
           /\ in_list <=> ListBlocks(html_parts, <<>>, FALSE).open
           /\ ListBlocks(CloseList(html_parts, in_list), <<>>, FALSE).ok
           /\ ~ListBlocks(CloseList(html_parts, in_list), <<>>, FALSE).open
           /\ html_files[FileOf(NameA)].content = JoinLines(CloseList(html_parts, in_list))

\* The function has returned from a body that ends inside a list of two
\* items
C19_Witness ==
    /\ Returned
    /\ in_list
    /\ Len(lines) >= 2 /\ ItemAt(Len(lines)) /\ ItemAt(Len(lines) - 1)

====
